---- MODULE Spec2Model ----
(***************************************************************************)
(* Routing engine of fapra_osm (src/src/server.rs): the /api/route handler *)
(* get_route, the constrained Dijkstra search run_dijkstra over the packed *)
(* graph, and the route builder build_route.                               *)
(*                                                                         *)
(* Numbers.  The code computes in f64.  The model computes the same        *)
(* quantities exactly, as integers in fixed units:                         *)
(*   length   metres                                                       *)
(*   speed    1/36 m/s (= 0.1 km/h), so 130.0 / 3.6 m/s is 1300            *)
(*   time     1/2600 s, so length / speed is length * 93600 / speed        *)
(* 93600 is a common multiple of every speed the model uses, so each       *)
(* quotient is exact.  f64::INFINITY is the value INFINITY, compared by    *)
(* FLess.  Rust indexes from 0 and TLA+ sequences from 1: At and SetAt     *)
(* take the Rust index.                                                    *)
(***************************************************************************)
EXTENDS Integers, Sequences, FiniteSets, TLC

VARIABLES
    data,             \* ::data::RoutingData, shared and never written
    pc,               \* "idle" | "search" | "build" | "done"
    metric_param,     \* the request's metric parameter, an Option
    source_osm,       \* get_route: source, None until it has parsed
    target_osm,       \* get_route: target, None until it has parsed
    constraints,      \* run_dijkstra: constraints (the vehicle flag)
    cost_func,        \* run_dijkstra: cost_func, the name of the function
    source,           \* run_dijkstra: source (internal id)
    target,           \* run_dijkstra: target (internal id)
    distance,         \* run_dijkstra: distance
    predecessor,      \* run_dijkstra: predecessor
    predecessor_edge, \* run_dijkstra: predecessor_edge
    heap,             \* run_dijkstra: heap, the BinaryHeap's backing vector
    b_node,           \* build_route: node
    b_edge,           \* build_route: edge
    result,           \* build_route: result
    response,         \* what get_route answered
    previous          \* the answer to the same request asked before

vars == <<data, pc, metric_param, source_osm, target_osm, constraints,
          cost_func, source, target, distance, predecessor, predecessor_edge,
          heap, b_node, b_edge, result, response, previous>>

\* Option<T>: None, or Some(x).
None == <<>>
Some(x) == <<x>>

\* The value of a numeric local that has not been assigned yet.
Unset == 0 - 1

(***************************************************************************)
(* Bounds and units.                                                       *)
(***************************************************************************)
\* The largest number of edges in a loaded graph.
MaxEdges == 4

\* f64::INFINITY: a value no cost takes, ordered above all by FLess.
INFINITY == -1

\* Speeds are counted in 1/SpeedScale m/s and times in SpeedScale/TimeScale s.
SpeedScale == 36
TimeScale == 93600

\* x m/s, and x / 3.6 m/s (x km/h), in the model's speed unit.
MetresPerSecond(x) == x * SpeedScale
KmPerHour(x) == (x * 10 * SpeedScale) \div 36

\* a < b over f64 with INFINITY.
FLess(a, b) == IF a = INFINITY THEN FALSE ELSE IF b = INFINITY THEN TRUE ELSE a < b

\* vec[i] and vec[i] = v with the Rust (0-based) index.
At(vec, i) == vec[i + 1]
SetAt(vec, i, v) == [vec EXCEPT ![i + 1] = v]

(***************************************************************************)
(* ::data: the travel-mode flags and the packed graph.                     *)
(***************************************************************************)
FLAG_CAR == 1
FLAG_BIKE == 2
FLAG_WALK == 4

\* a & b on u8.
RECURSIVE BitAnd(_, _)
BitAnd(a, b) ==
    IF a = 0 \/ b = 0 THEN 0
    ELSE (a % 2) * (b % 2) + 2 * BitAnd(a \div 2, b \div 2)

AllModes == FLAG_CAR + FLAG_BIKE + FLAG_WALK

\* The road network the graphs are cut from: nodes A, B, C, D (internal ids
\* 0..3) at the corners of a unit square, and the candidate edges, grouped
\* by source node as the packed representation requires.  Candidates 1, 3,
\* 4 and 7 are the four edges of the specification's scenario; 2 is a
\* motorway faster than any vehicle, 5 and 6 a cycle of length 0.
NetNodes == << [osm |-> 5000, position |-> <<0, 0>>],
               [osm |-> 5001, position |-> <<0, 1>>],
               [osm |-> 5002, position |-> <<1, 1>>],
               [osm |-> 5003, position |-> <<1, 0>>] >>

NetEdges == <<
    [from |-> 0, target |-> 1, length |-> 10, speed |-> MetresPerSecond(10), constraints |-> AllModes],
    [from |-> 0, target |-> 2, length |-> 20, speed |-> MetresPerSecond(40), constraints |-> FLAG_CAR],
    [from |-> 0, target |-> 3, length |-> 5,  speed |-> MetresPerSecond(1),  constraints |-> FLAG_CAR],
    [from |-> 1, target |-> 2, length |-> 10, speed |-> MetresPerSecond(10), constraints |-> AllModes],
    [from |-> 1, target |-> 3, length |-> 0,  speed |-> MetresPerSecond(1),  constraints |-> FLAG_BIKE + FLAG_WALK],
    [from |-> 3, target |-> 1, length |-> 0,  speed |-> MetresPerSecond(1),  constraints |-> AllModes],
    [from |-> 3, target |-> 2, length |-> 5,  speed |-> MetresPerSecond(1),  constraints |-> FLAG_CAR] >>

RoutingEdge(e) ==
    [target |-> e.target, length |-> e.length, speed |-> e.speed,
     constraints |-> e.constraints]

\* The edges of NetEdges chosen by `chosen`, in order, from candidate i on.
RECURSIVE PackEdges(_, _)
PackEdges(chosen, i) ==
    IF i > Len(NetEdges) THEN <<>>
    ELSE (IF i \in chosen THEN <<RoutingEdge(NetEdges[i])>> ELSE <<>>)
         \o PackEdges(chosen, i + 1)

\* The graph store holding the chosen edges: internal_nodes (the external id
\* of each internal index), internal_edges (all edges, grouped by source),
\* internal_offset (|nodes| + 1 entries, entry i the start of node i's
\* edges, the last one |edges|) and osm_nodes (external id -> internal id
\* and position).
RoutingData(chosen) ==
    [internal_nodes  |-> [i \in 1..Len(NetNodes) |-> NetNodes[i].osm],
     internal_edges  |-> PackEdges(chosen, 1),
     internal_offset |-> [i \in 1..(Len(NetNodes) + 1) |->
                            Cardinality({k \in chosen : NetEdges[k].from < i - 1})],
     osm_nodes       |-> [id \in {NetNodes[i].osm : i \in 1..Len(NetNodes)} |->
                            LET i == CHOOSE j \in 1..Len(NetNodes) : NetNodes[j].osm = id
                            IN  [internal_id |-> i - 1, position |-> NetNodes[i].position]]]

Graphs ==
    {RoutingData(chosen) :
        chosen \in {c \in SUBSET (1..Len(NetEdges)) : Cardinality(c) <= MaxEdges}}

(***************************************************************************)
(* The cost functions and the vehicle's maximum speed.                     *)
(***************************************************************************)
\* length / speed on f64, in the model's time unit.
FDiv(length, speed) == (length * TimeScale) \div speed

edge_cost_distance(edge, vspeed) == edge.length

edge_cost_time(edge, vspeed) ==
    LET speed == IF vspeed < edge.speed THEN vspeed ELSE edge.speed
    IN  FDiv(edge.length, speed)

\* cost_func(&edge, &vspeed), cost_func being a function's name.
CostFunc(name, edge, vspeed) ==
    IF name = "edge_cost_time" THEN edge_cost_time(edge, vspeed)
    ELSE edge_cost_distance(edge, vspeed)

\* let vspeed = match constraints { ... }: 130, 15, 5 km/h in m/s.
VSpeed(c) ==
    CASE c = FLAG_CAR  -> KmPerHour(130)
      [] c = FLAG_BIKE -> KmPerHour(15)
      [] c = FLAG_WALK -> KmPerHour(5)
      [] OTHER         -> KmPerHour(130)

(***************************************************************************)
(* offset_lookup: the slice [start, end) of a node's outgoing edges.       *)
(* ok is FALSE where an assert! of the code fails.                         *)
(***************************************************************************)
offset_lookup(node, d) ==
    LET start     == At(d.internal_offset, node)
        next_node == node + 1
        max_end   == At(d.internal_offset, Len(d.internal_offset) - 1)
    IN  IF next_node > Len(d.internal_offset) - 1
        THEN [ok |-> start <= max_end, start |-> start, end |-> max_end]
        ELSE LET end == At(d.internal_offset, next_node)
             IN  [ok |-> start <= end, start |-> start, end |-> end]

(***************************************************************************)
(* HeapEntry's order and std's BinaryHeap over it.  The heap is a max-heap *)
(* and HeapEntry::cmp compares the costs the other way round, so the entry *)
(* of least cost is on top.                                                *)
(***************************************************************************)
\* HeapEntryCmp with the costs compared in their own order: the max-heap
\* then keeps the entry of greatest cost on top.
HeapEntryCmpUnreversed(self, other) ==
    IF self.cost < other.cost THEN "Less"
    ELSE IF self.cost = other.cost THEN "Equal"
    ELSE "Greater"

\* self.cmp(other) = OrderedFloat(other.cost).cmp(&OrderedFloat(self.cost))
HeapEntryCmp(self, other) ==
    IF other.cost < self.cost THEN "Less"
    ELSE IF other.cost = self.cost THEN "Equal"
    ELSE "Greater"

\* self <= other by HeapEntry's PartialOrd.
HeapEntryLe(self, other) == HeapEntryCmp(self, other) # "Greater"

\* BinaryHeap::sift_up(start, pos), the hole's element being `elem`.
RECURSIVE SiftUp(_, _, _, _)
SiftUp(v, elem, start, pos) ==
    IF pos > start
    THEN LET parent == (pos - 1) \div 2
         IN  IF HeapEntryLe(elem, At(v, parent))
             THEN SetAt(v, pos, elem)
             ELSE SiftUp(SetAt(v, pos, At(v, parent)), elem, start, parent)
    ELSE SetAt(v, pos, elem)

\* BinaryHeap::push: append, then sift_up(0, old_len).
HeapPush(v, item) == SiftUp(Append(v, item), item, 0, Len(v))

\* BinaryHeap::sift_down_to_bottom(0): the hole goes down along the greater
\* child to the bottom, then its element is sifted up from there.
RECURSIVE SiftDownToBottom(_, _, _)
SiftDownToBottom(v, elem, pos) ==
    LET end   == Len(v)
        child == 2 * pos + 1
    IN  IF end >= 2 /\ child <= end - 2
        THEN LET c == IF HeapEntryLe(At(v, child), At(v, child + 1))
                      THEN child + 1 ELSE child
             IN  SiftDownToBottom(SetAt(v, pos, At(v, c)), elem, c)
        ELSE IF child = end - 1
        THEN SiftUp(SetAt(v, pos, At(v, child)), elem, 0, child)
        ELSE SiftUp(v, elem, 0, pos)

\* HeapPop as peek: the top entry is returned and stays in the heap.
HeapPeek(v) == [item |-> v[1], heap |-> v]

\* BinaryHeap::pop on a non-empty heap: the last element takes the root's
\* place and is sifted down; the old root is the item returned.
HeapPop(v) ==
    LET last == v[Len(v)]
        rest == SubSeq(v, 1, Len(v) - 1)
    IN  IF rest = <<>>
        THEN [item |-> last, heap |-> rest]
        ELSE [item |-> rest[1], heap |-> SiftDownToBottom(rest, last, 0)]

(***************************************************************************)
(* get_route: the request's parameters.                                    *)
(***************************************************************************)
DigitValue(c) ==
    CASE c = "0" -> 0 [] c = "1" -> 1 [] c = "2" -> 2 [] c = "3" -> 3
      [] c = "4" -> 4 [] c = "5" -> 5 [] c = "6" -> 6 [] c = "7" -> 7
      [] c = "8" -> 8 [] c = "9" -> 9 [] OTHER -> Unset

AllDigits(s) == \A i \in 1..Len(s) : DigitValue(s[i]) # Unset

\* The digits of s read as a number, acc being the number read so far: a
\* positive number is built by adding each digit, a negative one by
\* subtracting it.
RECURSIVE ParseDigits(_, _, _)
ParseDigits(s, acc, negative) ==
    IF s = <<>> THEN acc
    ELSE LET d == DigitValue(Head(s))
         IN  ParseDigits(Tail(s), IF negative THEN acc * 10 - d ELSE acc * 10 + d,
                         negative)

\* The digits of i64::MAX, and of the magnitude of i64::MIN.
I64MaxDigits ==
    <<"9", "2", "2", "3", "3", "7", "2", "0", "3", "6", "8", "5", "4", "7", "7",
      "5", "8", "0", "7">>
I64MinDigits ==
    <<"9", "2", "2", "3", "3", "7", "2", "0", "3", "6", "8", "5", "4", "7", "7",
      "5", "8", "0", "8">>

RECURSIVE StripZeros(_)
StripZeros(s) ==
    IF s # <<>> /\ Head(s) = "0" THEN StripZeros(Tail(s)) ELSE s

\* a > b as numbers, a and b digit strings without leading zeros.
RECURSIVE DigitsGreater(_, _)
DigitsGreater(a, b) ==
    IF Len(a) # Len(b) THEN Len(a) > Len(b)
    ELSE IF a = <<>> THEN FALSE
    ELSE IF Head(a) # Head(b) THEN DigitValue(Head(a)) > DigitValue(Head(b))
    ELSE DigitsGreater(Tail(a), Tail(b))

\* str::parse::<i64>: one leading "+" or "-" is accepted, then at least
\* one digit and digits only, and the number must fit an i64.  The answer
\* is [ok |-> FALSE] for Err and [ok |-> TRUE, value |-> n] for Ok(n).
\* Whether the number fits is decided on the digits, so it is decided for
\* every string; the value itself is computed as an integer of the checker,
\* which holds magnitudes below 2^31.
ParseI64(s) ==
    LET signed   == s # <<>> /\ Head(s) \in {"+", "-"}
        negative == s # <<>> /\ Head(s) = "-"
        digits   == IF signed THEN Tail(s) ELSE s
        limit    == IF negative THEN I64MinDigits ELSE I64MaxDigits
    IN  IF digits = <<>> \/ ~AllDigits(digits)
           \/ DigitsGreater(StripZeros(digits), limit)
        THEN [ok |-> FALSE]
        ELSE [ok |-> TRUE, value |-> ParseDigits(digits, 0, negative)]

\* .unwrap_or(default) on an optional parameter.
UnwrapOr(param, default) == IF param = None THEN default ELSE param[1]

DefaultSource == <<"1", "1", "3", "3", "7", "5", "1", "5", "1", "1">>
DefaultTarget == <<"2", "7", "2", "8", "1", "7", "9", "7">>

\* let vehice = match vehicle_raw { ... }
Vehicle(vehicle_raw) ==
    CASE vehicle_raw = "car"  -> FLAG_CAR
      [] vehicle_raw = "bike" -> FLAG_BIKE
      [] vehicle_raw = "walk" -> FLAG_WALK
      [] OTHER                -> FLAG_CAR

\* Metric with the fallback arm giving edge_cost_time.
MetricFallbackTime(metric_raw) ==
    CASE metric_raw = "time"     -> "edge_cost_time"
      [] metric_raw = "distance" -> "edge_cost_distance"
      [] OTHER                   -> "edge_cost_time"

\* let metric = match metric_raw { ... }
Metric(metric_raw) ==
    CASE metric_raw = "time"     -> "edge_cost_time"
      [] metric_raw = "distance" -> "edge_cost_distance"
      [] OTHER                   -> "edge_cost_distance"

\* The parameter values a request is drawn from.
IdParams ==
    {None, Some(<<"5", "0", "0", "0">>), Some(<<"5", "0", "0", "1">>),
     Some(<<"5", "0", "0", "2">>), Some(<<"5", "0", "0", "3">>),
     Some(<<"4", "9", "9", "9">>), Some(<<"5", "0", "x", "0">>),
     Some(<<"+", "5", "0", "0", "0">>), Some(<<"-", "5", "0", "0", "2">>),
     Some(I64MinDigits)}
VehicleParams == {None, Some("car"), Some("bike"), Some("walk"), Some("boat")}
MetricParams == {None, Some("time"), Some("distance"), Some("fastest")}

(***************************************************************************)
(* The state before a request.                                             *)
(***************************************************************************)
\* Route { distance: 0.0, time: 0.0, path: Vec::new() }
EmptyRoute == [distance |-> 0, time |-> 0, path |-> <<>>]

Pending == [status |-> "pending"]

Init ==
    /\ data \in Graphs
    /\ pc = "idle"
    /\ metric_param = None
    /\ source_osm = None
    /\ target_osm = None
    /\ constraints = Unset
    /\ cost_func = "unset"
    /\ source = Unset
    /\ target = Unset
    /\ distance = <<>>
    /\ predecessor = <<>>
    /\ predecessor_edge = <<>>
    /\ heap = <<>>
    /\ b_node = Unset
    /\ b_edge = Unset
    /\ result = EmptyRoute
    /\ response = Pending
    /\ previous = Pending

(***************************************************************************)
(* get_route up to the search loop: the parameters are read, the metric    *)
(* and the vehicle resolved, and run_dijkstra sets its state up.           *)
(***************************************************************************)
\* FreshDistance as a buffer kept from the request before.
ReusedDistance(n) == IF Len(distance) = n THEN distance ELSE [i \in 1..n |-> INFINITY]

\* vec![f64::INFINITY; n], vec![0; n]
FreshDistance(n) == [i \in 1..n |-> INFINITY]
FreshPredecessor(n) == [i \in 1..n |-> 0]

\* run_dijkstra from its entry to `begin dijkstra`.
BeginDijkstra(source_id, target_id, vehice, metric) ==
    /\ constraints' = vehice
    /\ cost_func' = metric
    /\ IF source_id \notin DOMAIN data.osm_nodes \/ target_id \notin DOMAIN data.osm_nodes
       THEN \* .get(..).unwrap() on None panics
            /\ pc' = "done"
            /\ response' = [status |-> "panic"]
            /\ UNCHANGED <<source, target, distance, predecessor,
                           predecessor_edge, heap>>
       ELSE LET n == Len(data.internal_nodes)
                s == data.osm_nodes[source_id].internal_id
            IN  /\ pc' = "search"
                /\ response' = Pending
                /\ source' = s
                /\ target' = data.osm_nodes[target_id].internal_id
                /\ distance' = SetAt(FreshDistance(n), s, 0)
                /\ predecessor' = FreshPredecessor(n)
                /\ predecessor_edge' = FreshPredecessor(n)
                /\ heap' = HeapPush(<<>>, [node |-> s, cost |-> 0])

get_route(query_ok, source_param, target_param, metric_q, vehicle_q) ==
    LET source_raw  == UnwrapOr(source_param, DefaultSource)
        target_raw  == UnwrapOr(target_param, DefaultTarget)
        metric_raw  == UnwrapOr(metric_q, "time")
        vehicle_raw == UnwrapOr(vehicle_q, "car")
        src         == ParseI64(source_raw)
        tgt         == ParseI64(target_raw)
    IN  /\ pc = "idle"
        /\ UNCHANGED <<data, b_node, b_edge, result, previous>>
        /\ IF ~query_ok
           THEN \* the request carries no query map to read
                /\ pc' = "done"
                /\ response' = [status |-> "InternalServerError"]
                /\ UNCHANGED <<metric_param, source_osm, target_osm, constraints,
                               cost_func, source, target, distance,
                               predecessor, predecessor_edge, heap>>
           ELSE IF ~src.ok \/ ~tgt.ok
           THEN \* itry! returns the parse error
                /\ pc' = "done"
                /\ response' = [status |-> "InternalServerError"]
                /\ metric_param' = metric_q
                /\ source_osm' = IF src.ok THEN Some(src.value) ELSE None
                /\ target_osm' = IF src.ok /\ tgt.ok THEN Some(tgt.value) ELSE None
                /\ UNCHANGED <<constraints, cost_func, source, target, distance,
                               predecessor, predecessor_edge, heap>>
           ELSE /\ metric_param' = metric_q
                /\ source_osm' = Some(src.value)
                /\ target_osm' = Some(tgt.value)
                /\ BeginDijkstra(src.value, tgt.value, Vehicle(vehicle_raw),
                                 Metric(metric_raw))

(***************************************************************************)
(* run_dijkstra: the search loop, one iteration per step.                  *)
(***************************************************************************)
\* Permitted without the requested mode: any edge open to some mode passes.
PermittedAnyMode(c, edge) == edge.constraints # 0

\* FlatIndex without the slice's start: the index within the node's slice.
SliceIndex(i, start) == i

\* constraints & edge.constraints == 0 skips the edge.
Permitted(c, edge) == BitAnd(c, edge.constraints) # 0

\* neighbor.cost < distance[neighbor.node]
Improves(cost, d) == FLess(cost, d)

\* i + start: the index in internal_edges of the i-th edge of the slice.
FlatIndex(i, start) == i + start

\* cost > distance[node]: the popped entry is stale.
Stale(cost, d) == FLess(d, cost)

\* The for loop over edges[start..end] from its i-th edge on.  st holds
\* distance, predecessor, predecessor_edge and heap.
RECURSIVE RelaxEdges(_, _, _, _, _, _)
RelaxEdges(st, node, cost, i, start, end) ==
    IF start + i >= end THEN st
    ELSE LET edge     == At(data.internal_edges, start + i)
             neighbor == [node |-> edge.target,
                          cost |-> cost + CostFunc(cost_func, edge, VSpeed(constraints))]
         IN  IF ~Permitted(constraints, edge)
             THEN RelaxEdges(st, node, cost, i + 1, start, end)
             ELSE IF Improves(neighbor.cost, At(st.distance, neighbor.node))
             THEN RelaxEdges(
                    [distance         |-> SetAt(st.distance, edge.target, neighbor.cost),
                     predecessor      |-> SetAt(st.predecessor, edge.target, node),
                     predecessor_edge |-> SetAt(st.predecessor_edge, edge.target, FlatIndex(i, start)),
                     heap             |-> HeapPush(st.heap, neighbor)],
                    node, cost, i + 1, start, end)
             ELSE RelaxEdges(st, node, cost, i + 1, start, end)

SearchState(h) ==
    [distance |-> distance, predecessor |-> predecessor,
     predecessor_edge |-> predecessor_edge, heap |-> h]

\* heap.pop() gives the target: build_route is entered.
PopTarget ==
    /\ pc = "search"
    /\ heap # <<>>
    /\ \E popped \in {HeapPop(heap)} :
           /\ popped.item.node = target
           /\ heap' = popped.heap
           /\ pc' = "build"
           /\ result' = EmptyRoute
           /\ b_node' = target
           /\ b_edge' = At(predecessor_edge, target)
    /\ UNCHANGED <<data, metric_param, source_osm, target_osm, constraints,
                   cost_func, source, target, distance, predecessor,
                   predecessor_edge, response, previous>>

\* heap.pop() gives an entry that a cheaper one has overtaken: continue.
PopStale ==
    /\ pc = "search"
    /\ heap # <<>>
    /\ \E popped \in {HeapPop(heap)} :
           /\ popped.item.node # target
           /\ Stale(popped.item.cost, At(distance, popped.item.node))
           /\ heap' = popped.heap
    /\ UNCHANGED <<data, pc, metric_param, source_osm, target_osm, constraints,
                   cost_func, source, target, distance, predecessor,
                   predecessor_edge, b_node, b_edge, result, response, previous>>

\* heap.pop() gives a node to expand: its permitted edges are relaxed.
PopExpand ==
    /\ pc = "search"
    /\ heap # <<>>
    /\ \E popped \in {HeapPop(heap)} :
       LET node   == popped.item.node
           cost   == popped.item.cost
           slice  == offset_lookup(node, data)
       IN  /\ node # target
           /\ ~Stale(cost, At(distance, node))
           /\ IF ~slice.ok \/ slice.end > Len(data.internal_edges)
              THEN \* assert! fails, or the slice is out of range
                   /\ pc' = "done"
                   /\ response' = [status |-> "panic"]
                   /\ heap' = popped.heap
                   /\ UNCHANGED <<distance, predecessor, predecessor_edge>>
              ELSE \E st \in {RelaxEdges(SearchState(popped.heap), node, cost, 0,
                                          slice.start, slice.end)} :
                       /\ distance' = st.distance
                       /\ predecessor' = st.predecessor
                       /\ predecessor_edge' = st.predecessor_edge
                       /\ heap' = st.heap
                       /\ UNCHANGED <<pc, response>>
    /\ UNCHANGED <<data, metric_param, source_osm, target_osm, constraints,
                   cost_func, source, target, b_node, b_edge, result, previous>>

\* heap.pop() gives None: run_dijkstra returns None, get_route answers 404.
QueueEmpty ==
    /\ pc = "search"
    /\ heap = <<>>
    /\ pc' = "done"
    /\ response' = [status |-> "NotFound"]
    /\ UNCHANGED <<data, metric_param, source_osm, target_osm, constraints,
                   cost_func, source, target, distance, predecessor,
                   predecessor_edge, heap, b_node, b_edge, result, previous>>

(***************************************************************************)
(* build_route: the loop, one iteration per step, and the return.          *)
(***************************************************************************)
\* CappedSpeed without the cap.
UncappedSpeed(speed, vspeed) == speed

\* Reverse left out.
NotReversed(path) == path

\* AtSource tested only after the loop's first iteration (a do-while loop).
AtSourceAfterFirst(node, src) == node = src /\ result.path # <<>>

\* if *vspeed < speed { speed = *vspeed; }
CappedSpeed(speed, vspeed) == IF vspeed < speed THEN vspeed ELSE speed

\* Vec::reverse
RECURSIVE Reverse(_)
Reverse(path) ==
    IF path = <<>> THEN <<>> ELSE Append(Reverse(Tail(path)), Head(path))

\* node == source ends the loop.
AtSource(node, src) == node = src

BuildStep ==
    /\ pc = "build"
    /\ ~AtSource(b_node, source)
    /\ IF b_edge >= Len(data.internal_edges)
       THEN \* data.internal_edges[edge] is out of range
            /\ pc' = "done"
            /\ response' = [status |-> "panic"]
            /\ UNCHANGED <<b_node, b_edge, result>>
       ELSE LET osm_id == At(data.internal_nodes, b_node)
                pos    == data.osm_nodes[osm_id].position
                edge   == At(data.internal_edges, b_edge)
                speed  == CappedSpeed(edge.speed, VSpeed(constraints))
                next   == At(predecessor, b_node)
            IN  /\ result' = [distance |-> result.distance + edge.length,
                              time     |-> result.time + FDiv(edge.length, speed),
                              path     |-> Append(result.path, pos)]
                /\ b_node' = next
                /\ b_edge' = At(predecessor_edge, next)
                /\ UNCHANGED <<pc, response>>
    /\ UNCHANGED <<data, metric_param, source_osm, target_osm, constraints,
                   cost_func, source, target, distance, predecessor,
                   predecessor_edge, heap, previous>>

\* The loop has reached the source: the path is reversed and the route
\* returned, which get_route answers with.  (RoutingResult.duration, the
\* wall-clock time of the search, is left out.)
BuildReturn ==
    /\ pc = "build"
    /\ AtSource(b_node, source)
    /\ result' = [result EXCEPT !.path = Reverse(result.path)]
    /\ response' = [status |-> "Ok", route |-> result']
    /\ pc' = "done"
    /\ UNCHANGED <<data, metric_param, source_osm, target_osm, constraints,
                   cost_func, source, target, distance, predecessor,
                   predecessor_edge, heap, b_node, b_edge, previous>>

(***************************************************************************)
(* The same request once more, against the same graph.                     *)
(***************************************************************************)
Repeat ==
    /\ pc = "done"
    /\ previous = Pending
    /\ response.status \in {"Ok", "NotFound"}
    /\ previous' = response
    /\ b_node' = Unset
    /\ b_edge' = Unset
    /\ result' = EmptyRoute
    /\ BeginDijkstra(source_osm[1], target_osm[1], constraints, cost_func)
    /\ UNCHANGED <<data, metric_param, source_osm, target_osm>>

Request ==
    \E query_ok \in BOOLEAN,
       source_param \in IdParams, target_param \in IdParams,
       metric_q \in MetricParams, vehicle_q \in VehicleParams :
        get_route(query_ok, source_param, target_param, metric_q, vehicle_q)

SearchStep == PopTarget \/ PopStale \/ PopExpand \/ QueueEmpty
BuildRoute == BuildStep \/ BuildReturn

Next == Request \/ PopTarget \/ PopStale \/ PopExpand \/ QueueEmpty
        \/ BuildStep \/ BuildReturn

Spec == Init /\ [][Next]_vars

\* A request, once accepted, runs on: the search and the route builder are
\* loops of one thread.
FairSpec == Spec /\ WF_vars(SearchStep) /\ WF_vars(BuildRoute)

\* Requests that may be asked a second time.
RepeatSpec == Init /\ [][Next \/ Repeat]_vars

(***************************************************************************)
(* What the claims speak of, defined on the graph alone.                   *)
(***************************************************************************)
Nodes == 0..(Len(data.internal_nodes) - 1)
EdgeIds == 0..(Len(data.internal_edges) - 1)

\* The node whose slice of internal_edges holds the edge at flat index k.
EdgeSource(k) ==
    CHOOSE n \in Nodes :
        /\ At(data.internal_offset, n) <= k
        /\ k < At(data.internal_offset, n + 1)

\* The travel modes an allowed_modes mask contains.
ModesOf(mask) == {f \in {FLAG_CAR, FLAG_BIKE, FLAG_WALK} : (mask \div f) % 2 = 1}

\* The edges a set of modes may use.
EdgesFor(modes) ==
    {k \in EdgeIds : ModesOf(At(data.internal_edges, k).constraints) \cap modes # {}}

Minimum(S) == CHOOSE x \in S : \A y \in S : x <= y

\* The cost of edge k under a metric for a vehicle of maximum speed vmax.
EdgeCost(k, metric, vmax) ==
    LET e == At(data.internal_edges, k)
        v == IF e.speed < vmax THEN e.speed ELSE vmax
    IN  IF metric = "edge_cost_time" THEN (e.length * TimeScale) \div v ELSE e.length

\* Bellman-Ford: d after `rounds` more rounds over the edges in E.
RECURSIVE BellmanFord(_, _, _, _, _)
BellmanFord(d, E, metric, vmax, rounds) ==
    IF rounds = 0 THEN d
    ELSE BellmanFord(
            [n \in Nodes |->
                LET via == {d[EdgeSource(k)] + EdgeCost(k, metric, vmax) :
                              k \in {j \in E : /\ At(data.internal_edges, j).target = n
                                               /\ d[EdgeSource(j)] # INFINITY}}
                    all == via \cup (IF d[n] = INFINITY THEN {} ELSE {d[n]})
                IN  IF all = {} THEN INFINITY ELSE Minimum(all)],
            E, metric, vmax, rounds - 1)

\* The least cost of a path from `from` to `to` over the edges that `modes`
\* may use; INFINITY when there is none.
ShortestCost(from, to, modes, metric, vmax) ==
    BellmanFord([n \in Nodes |-> IF n = from THEN 0 ELSE INFINITY],
                EdgesFor(modes), metric, vmax, Cardinality(Nodes) - 1)[to]

\* The flat indices of the edges found by following predecessor from node n
\* towards the source, nearest the target first; at most `fuel` of them.
RECURSIVE ChainEdges(_, _)
ChainEdges(n, fuel) ==
    IF n = source \/ fuel = 0 THEN <<>>
    ELSE <<At(predecessor_edge, n)>> \o ChainEdges(At(predecessor, n), fuel - 1)

RouteEdges == ChainEdges(target, Cardinality(Nodes))

\* Following predecessor from n reaches the source within `fuel` steps
\* without meeting a node of `seen` again, each step along an edge that
\* leaves the predecessor and enters the node.
RECURSIVE ChainSound(_, _, _)
ChainSound(n, fuel, seen) ==
    IF n = source THEN TRUE
    ELSE /\ fuel > 0
         /\ n \notin seen
         /\ At(distance, n) # INFINITY
         /\ LET p == At(predecessor, n)
                e == At(predecessor_edge, n)
            IN  /\ p \in Nodes
                /\ e \in EdgeIds
                /\ At(data.internal_offset, p) <= e
                /\ e < At(data.internal_offset, p + 1)
                /\ At(data.internal_edges, e).target = n
                /\ ChainSound(p, fuel - 1, seen \cup {n})

RECURSIVE Sum(_, _, _)
Sum(F(_), seq, i) == IF i > Len(seq) THEN 0 ELSE F(seq[i]) + Sum(F, seq, i + 1)

Position(n) == data.osm_nodes[At(data.internal_nodes, n)].position

Answered == pc = "done" /\ response.status \in {"Ok", "NotFound"}
Routed == pc = "done" /\ response.status = "Ok"

(***************************************************************************)
(* Claims.                                                                 *)
(***************************************************************************)
\* The graph of the specification's scenario: A->B, B->C (length 10, 10 m/s,
\* all modes) and A->D, D->C (length 5, 1 m/s, car only).
ScenarioGraph == RoutingData({1, 3, 4, 7})

\* The cost of the answered route under the metric the search optimised.
RouteCost ==
    IF cost_func = "edge_cost_time" THEN response.route.time
    ELSE response.route.distance

\* C1: whenever a route is returned, its cost under the selected metric (the
\* sum of that metric's edge costs along it) is the least cost of any path
\* from source to target over the edges the requested mode may use.
C1_RouteIsShortest ==
    Routed =>
        RouteCost = ShortestCost(source, target, {constraints}, cost_func,
                                 VSpeed(constraints))

\* C1's case: the scenario asked by car for the shortest distance from A to
\* C; the answer is A-D-C of length 10, not A-B-C of length 20.
C1_Witness ==
    /\ Routed
    /\ data = ScenarioGraph
    /\ source = 0 /\ target = 2
    /\ constraints = FLAG_CAR
    /\ cost_func = "edge_cost_distance"
    /\ response.route.distance = 10
    /\ response.route.path = <<Position(3), Position(2)>>

\* C3: every edge of a returned route (every edge recorded in
\* predecessor_edge from the target back to the source) permits the
\* requested mode; and when no path of permitted edges leads from source to
\* target, no route is returned.
C3_ModeFiltering ==
    Answered =>
        /\ Routed =>
             \A i \in 1..Len(RouteEdges) :
                 constraints \in ModesOf(At(data.internal_edges, RouteEdges[i]).constraints)
        /\ ShortestCost(source, target, {constraints}, cost_func,
                        VSpeed(constraints)) = INFINITY
             => response.status = "NotFound"

\* C3's case: a route is returned although the graph holds a strictly
\* shorter way that the requested mode may not use.
C3_Witness ==
    /\ Routed
    /\ RouteEdges # <<>>
    /\ ShortestCost(source, target, {FLAG_CAR, FLAG_BIKE, FLAG_WALK}, cost_func,
                    VSpeed(constraints)) < RouteCost

RouteEdgeLength(k) == At(data.internal_edges, k).length
RouteEdgeTime(k) == EdgeCost(k, "edge_cost_time", VSpeed(constraints))

\* C7: whichever metric the search optimised, a returned route's distance is
\* the sum of the lengths of its edges and its time the sum of
\* length / min(speed, vmax) over the same edges.
C7_RouteTotals ==
    Routed =>
        /\ response.route.distance = Sum(RouteEdgeLength, RouteEdges, 1)
        /\ response.route.time = Sum(RouteEdgeTime, RouteEdges, 1)

\* C7's case: a route optimised for distance, one of whose edges is faster
\* than the vehicle: it counts length / vmax.
C7_Witness ==
    /\ Routed
    /\ cost_func = "edge_cost_distance"
    /\ \E i \in 1..Len(RouteEdges) :
          LET e == At(data.internal_edges, RouteEdges[i])
          IN  /\ e.speed > VSpeed(constraints)
              /\ e.length > 0
    /\ response.route.time > 0

\* C8: for source # target the path of a returned route has one entry per
\* edge of the route, entry k being the position of the target node of the
\* route's k-th edge counted from the source; so it ends with the target's
\* position and never holds the source's.
C8_PathOrder ==
    (Routed /\ source # target) =>
        LET n    == Len(RouteEdges)
            path == response.route.path
        IN  /\ Len(path) = n
            /\ \A k \in 1..n :
                 path[k] = Position(At(data.internal_edges, RouteEdges[n + 1 - k]).target)
            /\ n > 0
            /\ path[n] = Position(target)
            /\ \A k \in 1..n : path[k] # Position(source)

\* C8's case: a route of three edges.
C8_Witness ==
    /\ Routed
    /\ source # target
    /\ Len(response.route.path) = 3

\* A request whose two ids parsed, one of them not an id of the graph.
UnknownEndpoint ==
    /\ pc = "done"
    /\ response.status # "InternalServerError"
    /\ source_osm # None
    /\ target_osm # None
    /\ \/ source_osm[1] \notin DOMAIN data.osm_nodes
       \/ target_osm[1] \notin DOMAIN data.osm_nodes

\* C2: a request whose source or target id is not in the graph's id index
\* ends with an explicit UnknownEndpoint outcome returned to the caller: it
\* does not panic, and no route from or to any other node is answered.
C2_UnknownEndpointIsReported ==
    UnknownEndpoint => response.status = "UnknownEndpoint"

\* C4: once the search loop runs, either the target is popped (build_route
\* is entered) or the queue empties and the answer is "no route"; and when
\* no path of permitted edges leads to the target, the answer is "no route".
C4_SearchTerminates ==
    /\ (pc = "search") ~> (pc = "build" \/ (heap = <<>> /\ response.status = "NotFound"))
    /\ (pc = "search" /\ ShortestCost(source, target, {constraints}, cost_func,
                                      VSpeed(constraints)) = INFINITY)
          ~> (pc = "done" /\ heap = <<>> /\ response.status = "NotFound")

\* C4's case: the queue has emptied after more than one node was reached,
\* the target not among them.
C4_Witness ==
    /\ pc = "done"
    /\ response.status = "NotFound"
    /\ heap = <<>>
    /\ Cardinality({n \in Nodes : At(distance, n) # INFINITY}) >= 3

\* A request is running, or has been answered, from a node to itself.
SelfQuery ==
    /\ pc \in {"search", "build", "done"}
    /\ response.status \notin {"panic", "InternalServerError"}
    /\ source = target

\* C5: a request with source = target relaxes no edge and appends nothing in
\* build_route, and is answered with a route of distance 0, time 0 and an
\* empty path.
C5_SourceIsTarget ==
    SelfQuery =>
        /\ distance = SetAt([i \in 1..Len(data.internal_nodes) |-> INFINITY], source, 0)
        /\ \A n \in Nodes : At(predecessor, n) = 0 /\ At(predecessor_edge, n) = 0
        /\ result = [distance |-> 0, time |-> 0, path |-> <<>>]
        /\ pc = "done" =>
             response = [status |-> "Ok",
                         route |-> [distance |-> 0, time |-> 0, path |-> <<>>]]

\* C5's case: the request from D to D is answered, D having an outgoing
\* edge of length 0.
C5_Witness ==
    /\ SelfQuery
    /\ pc = "done"
    /\ source = 3
    /\ \E k \in EdgeIds : EdgeSource(k) = 3 /\ At(data.internal_edges, k).length = 0

\* C6 as claimed: the metric is the distance cost function when the metric
\* parameter is absent and when it is not time or distance; only the value
\* "time" selects the time cost function.
C6_AbsentMetricIsDistance ==
    (pc # "idle" /\ response.status # "InternalServerError") =>
        (cost_func = "edge_cost_time" <=> metric_param = Some("time"))

\* C6 amended: the metric is the time cost function when the metric
\* parameter is absent or is "time", and the distance cost function when it
\* has any other value.
C6_MetricResolution ==
    (pc # "idle" /\ response.status # "InternalServerError") =>
        /\ metric_param \in {None, Some("time")} => cost_func = "edge_cost_time"
        /\ metric_param \notin {None, Some("time")} => cost_func = "edge_cost_distance"

\* C6's case: a request with an unrecognised metric has been answered with a
\* route.
C6_Witness ==
    /\ Routed
    /\ metric_param = Some("fastest")
    /\ cost_func = "edge_cost_distance"
    /\ response.route.distance > 0

\* C9: the same request asked again of the same graph is answered as it was
\* before: a route both times or neither time, and the same distance, time
\* and path.
C9_SameAnswerAgain ==
    (pc = "done" /\ previous # Pending) => response = previous

\* C9's case: the second answer to a request that two paths of equal cost
\* satisfy (by car, A->C of length 20 and A->B->C of length 10 + 10).
C9_Witness ==
    /\ pc = "done"
    /\ previous # Pending
    /\ response.status = "Ok"
    /\ data = RoutingData({1, 2, 4})
    /\ source = 0 /\ target = 2
    /\ constraints = FLAG_CAR
    /\ cost_func = "edge_cost_distance"

\* build_route holds in b_edge the entry predecessor_edge[b_node] it has just
\* read.  The search has written a node's entries when it has relaxed the
\* node, which it never does to the source.
Written(n) == n # source /\ At(distance, n) # INFINITY

\* C10 as claimed: when build_route is entered, following predecessor from
\* the target reaches the source after at most |nodes| - 1 steps without
\* meeting a node twice, along edges that lie in the predecessor's slice and
\* enter the node; and the loop of build_route reads no zero-initialised
\* entry, one the search has not written.  (Once the loop body has run,
\* result.path is not empty and b_edge is the entry the body read last.)
C10_ReadsNoDefaultEntry ==
    pc = "build" =>
        /\ ChainSound(target, Cardinality(Nodes) - 1, {})
        /\ b_edge = At(predecessor_edge, b_node)
        /\ result.path # <<>> => Written(b_node)

\* C10 amended: the chain is as claimed, so the loop of build_route ends;
\* every entry of predecessor and predecessor_edge that the loop body uses
\* has been written, and the only unwritten entry build_route reads is
\* predecessor_edge[source], which the loop body reads in its last
\* iteration and never uses.
C10_PredecessorChain ==
    pc = "build" =>
        /\ ChainSound(target, Cardinality(Nodes) - 1, {})
        /\ ChainSound(b_node, Cardinality(Nodes) - 1, {})
        /\ b_edge = At(predecessor_edge, b_node)
        /\ b_node # source => Written(b_node)

\* C10's case: build_route is entered for a target whose route passes a
\* node, not the source, that lies on a cycle of two edges of length 0, both
\* open to the requested mode, the other node of the cycle (not the source
\* either) having been reached before the target was popped.
C10_Witness ==
    /\ pc = "build"
    /\ b_node = target
    /\ \E j, k \in EdgesFor({constraints}) :
          /\ EdgeSource(j) # source
          /\ EdgeSource(k) # source
          /\ EdgeSource(j) = At(data.internal_edges, k).target
          /\ EdgeSource(k) = At(data.internal_edges, j).target
          /\ At(data.internal_edges, j).length = 0
          /\ At(data.internal_edges, k).length = 0
          /\ \E i \in 2..Len(RouteEdges) : EdgeSource(RouteEdges[i - 1]) = EdgeSource(j)
          /\ At(distance, EdgeSource(k)) # INFINITY
          /\ EdgeSource(k) # target

====
